---- MODULE Spec2Model ----
(***************************************************************************)
(* Governance and royalty settlement of the Hackathon DAO:                 *)
(*   VotingSystem     (hackathon-dao/src/governance/voting.js)             *)
(*   ProposalManager  (unnamed/part_006)                                   *)
(*   RoyaltyEngine    (hackathon-dao/src/core/royalty.js)                  *)
(*   TeamManager, MemberManager, ContributionTracker, HackathonDAO facade  *)
(* over the document store HackathonDatabase (unnamed/part_004).           *)
(*                                                                         *)
(* Units.  The clock counts days (Date.now() / 86400000).  Vote weights    *)
(* and tallies are kept in hundredths (weight 1.2 is 120), fractions such  *)
(* as quorumRequired and approvalThreshold in hundredths (0.66 is 66).     *)
(* Money and percentages of royalty rows are exact rationals [n, d];       *)
(* d = 0 stands for the IEEE value NaN that 0/0 produces.                  *)
(***************************************************************************)
EXTENDS Integers, Sequences, FiniteSets, Bags, TLC

VARIABLES
  now,            \* Date.now(), in days
  teams,          \* collection 'teams'         : id -> document or NoDoc
  members,        \* collection 'members'       : id -> document or NoDoc
  contributions,  \* collection 'contributions' : id -> document or NoDoc
  proposals,      \* collection 'proposals'     : id -> document or NoDoc
  votes,          \* collection 'votes'         : the bag of its rows
  royalties,      \* collection 'royalties'     : id -> document or NoDoc
  last,           \* the last call made and how it ended
  calls           \* the calls in flight, each with what it has read so far

vars == <<now, teams, members, contributions, proposals, votes, royalties, last, calls>>

----------------------------------------------------------------------------
(* Bounds of the model *)

MaxNow == 2
MaxExpiresAt == 5
MaxContributions == 16

----------------------------------------------------------------------------
(* Program constants *)

DefaultExpiryDays == 7
DefaultQuorum == 50
DefaultApproval == 66
DefaultExtensionDays == 3
StartingReputation == 100
MaxReputation == 1000
DefaultMaxMembers == 10

----------------------------------------------------------------------------
(* Identifiers and input sets *)

NoDoc == [none |-> TRUE]
Null == -1

TeamIds == {"t1"}
MemberIds == {"m1", "m2", "m3"}
ContribIds == {"c1", "c2", "c3"}
ProposalIds == {"p1"}
PoolIds == {"r1"}
CallIds == {"x", "y", "z"}

VoteOptions == {"for", "against", "abstain"}
VoteInputs == VoteOptions \cup {"maybe"}

Terminal == {"passed", "rejected", "expired"}

----------------------------------------------------------------------------
(* Small helpers *)

Max(a, b) == IF a >= b THEN a ELSE b
Min(a, b) == IF a <= b THEN a ELSE b

Includes(s, x) == \E i \in 1..Len(s) : s[i] = x

IndexOf(s, x) == CHOOSE i \in 1..Len(s) : s[i] = x /\ \A j \in 1..(i-1) : s[j] # x

Splice(s, i) == [j \in 1..(Len(s)-1) |-> IF j < i THEN s[j] ELSE s[j+1]]

\* An array that the code only pushes to and searches (proposal.voters, the
\* rows of the votes collection) is a bag: what it holds, and how often.
Push(b, x) == b (+) SetToBag({x})

\* Sum of the weight fields of the rows S of the bag b, each as often as held
RECURSIVE SumOver(_, _)
SumOver(b, S) ==
  IF S = {} THEN 0
  ELSE LET e == CHOOSE x \in S : TRUE
       IN CopiesIn(e, b) * e.weight + SumOver(b, S \ {e})

Done(op, err) == [op |-> op, err |-> err]

\* A call slot nobody uses.  A call in flight keeps what the async function
\* holds in its local variables between two awaits.
Idle ==
  [op |-> "none", pc |-> "idle", proposalId |-> "none", memberId |-> "none",
   vote |-> "none", proposal |-> NoDoc, weight |-> 0, days |-> 0,
   quorumReached |-> FALSE, err |-> "none"]

----------------------------------------------------------------------------
(* Numbers of the royalty engine: exact rationals in lowest terms, d > 0.   *)
(* NaN (d = 0) is what IEEE arithmetic gives for 0/0 and for every          *)
(* operation that has a NaN operand.  Scores are non-negative, so a         *)
(* non-zero value is never divided by zero.                                 *)

RECURSIVE GCD(_, _)
GCD(a, b) == IF b = 0 THEN a ELSE GCD(b, a % b)

Abs(x) == IF x < 0 THEN -x ELSE x

NaN == [n |-> 0, d |-> 0]
IsNaN(x) == x.d = 0

Rat(n, d) ==
  IF d = 0 THEN NaN
  ELSE LET g == GCD(Abs(n), Abs(d))
           sgn == IF d < 0 THEN -1 ELSE 1
       IN [n |-> sgn * (n \div g), d |-> sgn * (d \div g)]

Num(k) == [n |-> k, d |-> 1]

RAdd(x, y) == IF IsNaN(x) \/ IsNaN(y) THEN NaN ELSE Rat(x.n * y.d + y.n * x.d, x.d * y.d)
RMul(x, y) == IF IsNaN(x) \/ IsNaN(y) THEN NaN ELSE Rat(x.n * y.n, x.d * y.d)
RDiv(x, y) == IF IsNaN(x) \/ IsNaN(y) THEN NaN ELSE Rat(x.n * y.d, x.d * y.n)

\* x - y > 0 as the sort comparator sees it: false when either is NaN
RGreater(x, y) == ~IsNaN(x) /\ ~IsNaN(y) /\ x.n * y.d > y.n * x.d

RECURSIVE RSum(_)
RSum(s) == IF s = <<>> THEN Num(0) ELSE RAdd(s[1], RSum(Tail(s)))

----------------------------------------------------------------------------
(* HackathonDatabase *)

\* update(collection, id, updates): { ...existing, ...updates }
DbUpdate(coll, id, updates) ==
  [coll EXCEPT ![id] =
     [f \in DOMAIN coll[id] |-> IF f \in DOMAIN updates THEN updates[f] ELSE coll[id][f]]]

\* query('contributions', { memberId, teamId })
QueryContributions(memberId, teamId) ==
  {c \in DOMAIN contributions : /\ contributions[c] # NoDoc
                                /\ contributions[c].memberId = memberId
                                /\ contributions[c].teamId = teamId}

----------------------------------------------------------------------------
(* VotingSystem *)

roleBonus(role) ==
  CASE role = "team_lead" -> 200
    [] role = "senior" -> 100
    [] OTHER -> 0

\* Mutant of calculateVoteWeight: the contribution bonus has no cap
calculateVoteWeightUncapped(voterId, teamId) ==
  LET member == members[voterId] IN
  IF member = NoDoc THEN 100
  ELSE
    LET reputationBonus == member.reputation - 100
        verifiedContributions ==
          Cardinality({c \in QueryContributions(voterId, teamId) : contributions[c].verified})
        contributionBonus == verifiedContributions * 20
        weight == 1000 + Max(0, Min(500, reputationBonus)) + contributionBonus
                  + roleBonus(member.role)
    IN (weight + 5) \div 10

\* Weight in hundredths: Math.round(weight * 100) / 100 of
\* 1 + clamp(0, 0.5, (reputation - 100) / 1000) + min(0.3, verified * 0.02) + roleBonus
calculateVoteWeight(voterId, teamId) ==
  LET member == members[voterId] IN
  IF member = NoDoc THEN 100
  ELSE
    LET reputationBonus == member.reputation - 100
        verifiedContributions ==
          Cardinality({c \in QueryContributions(voterId, teamId) : contributions[c].verified})
        contributionBonus == Min(300, verifiedContributions * 20)
        weight == 1000 + Max(0, Min(500, reputationBonus)) + contributionBonus
                  + roleBonus(member.role)
    IN (weight + 5) \div 10

\* Mutant of checkVoterEligibility: the members list of the team is not read
checkVoterEligibilityAnyone(proposalId, voterId) ==
  LET proposal == proposals[proposalId] IN
  IF proposal = NoDoc THEN FALSE
  ELSE teams[proposal.teamId] # NoDoc

checkVoterEligibility(proposalId, voterId) ==
  LET proposal == proposals[proposalId] IN
  IF proposal = NoDoc THEN FALSE
  ELSE IF teams[proposal.teamId] = NoDoc THEN FALSE
  ELSE Includes(teams[proposal.teamId].members, voterId)

\* Mutant of CastVoteFailure: the deadline is not checked
CastVoteFailureNoExpiryCheck(proposalId, voterId, vote) ==
  LET proposal == proposals[proposalId] IN
  IF proposal = NoDoc THEN "NotFound"
  ELSE IF proposal.status # "active" THEN "InvalidState"
  ELSE IF ~checkVoterEligibility(proposalId, voterId) THEN "NotEligible"
  ELSE IF BagIn(voterId, proposal.voters) THEN "DuplicateVote"
  ELSE IF vote \notin VoteOptions THEN "InvalidArgument"
  ELSE "ok"

\* Mutant of CastVoteFailure: the check of proposal.voters is missing
CastVoteFailureNoDuplicateCheck(proposalId, voterId, vote) ==
  LET proposal == proposals[proposalId] IN
  IF proposal = NoDoc THEN "NotFound"
  ELSE IF proposal.status # "active" THEN "InvalidState"
  ELSE IF now > proposal.expiresAt THEN "Expired"
  ELSE IF ~checkVoterEligibility(proposalId, voterId) THEN "NotEligible"
  ELSE IF vote \notin VoteOptions THEN "InvalidArgument"
  ELSE "ok"

\* Mutant of CastVoteFailure: the vote option is not validated
CastVoteFailureNoOptionCheck(proposalId, voterId, vote) ==
  LET proposal == proposals[proposalId] IN
  IF proposal = NoDoc THEN "NotFound"
  ELSE IF proposal.status # "active" THEN "InvalidState"
  ELSE IF now > proposal.expiresAt THEN "Expired"
  ELSE IF ~checkVoterEligibility(proposalId, voterId) THEN "NotEligible"
  ELSE IF BagIn(voterId, proposal.voters) THEN "DuplicateVote"
  ELSE "ok"

\* The validation of castVote, in the order of the code: the first failing
\* check decides the error that is thrown.
CastVoteFailure(proposalId, voterId, vote) ==
  LET proposal == proposals[proposalId] IN
  IF proposal = NoDoc THEN "NotFound"
  ELSE IF proposal.status # "active" THEN "InvalidState"
  ELSE IF now > proposal.expiresAt THEN "Expired"
  ELSE IF ~checkVoterEligibility(proposalId, voterId) THEN "NotEligible"
  ELSE IF BagIn(voterId, proposal.voters) THEN "DuplicateVote"
  ELSE IF vote \notin VoteOptions THEN "InvalidArgument"
  ELSE "ok"

VoteRecord(proposalId, voterId, vote) ==
  [proposalId |-> proposalId, voterId |-> voterId, vote |-> vote,
   weight |-> calculateVoteWeight(voterId, proposals[proposalId].teamId)]

\* Mutant of VotedProposal: the switch has no case for abstain
VotedProposalNoAbstain(proposalId, voterId, vote) ==
  LET proposal == proposals[proposalId]
      weight == VoteRecord(proposalId, voterId, vote).weight
  IN [proposal EXCEPT
        !.voters = Push(@, voterId),
        !.votesFor = IF vote = "for" THEN @ + weight ELSE @,
        !.votesAgainst = IF vote = "against" THEN @ + weight ELSE @]

\* Mutant of VotedProposal: the tally is set to the weight, not increased by it
VotedProposalOverwrites(proposalId, voterId, vote) ==
  LET proposal == proposals[proposalId]
      weight == VoteRecord(proposalId, voterId, vote).weight
  IN [proposal EXCEPT
        !.voters = Push(@, voterId),
        !.votesFor = IF vote = "for" THEN weight ELSE @,
        !.votesAgainst = IF vote = "against" THEN weight ELSE @,
        !.votesAbstain = IF vote = "abstain" THEN weight ELSE @]

\* The proposal document castVote writes back
VotedProposal(proposalId, voterId, vote) ==
  LET proposal == proposals[proposalId]
      weight == VoteRecord(proposalId, voterId, vote).weight
  IN [proposal EXCEPT
        !.voters = Push(@, voterId),
        !.votesFor = IF vote = "for" THEN @ + weight ELSE @,
        !.votesAgainst = IF vote = "against" THEN @ + weight ELSE @,
        !.votesAbstain = IF vote = "abstain" THEN @ + weight ELSE @]

CastVote(proposalId, voterId, vote) ==
  LET err == CastVoteFailure(proposalId, voterId, vote) IN
  /\ IF err = "ok"
       THEN /\ votes' = Push(votes, VoteRecord(proposalId, voterId, vote))
            /\ proposals' = DbUpdate(proposals, proposalId,
                                     VotedProposal(proposalId, voterId, vote))
       ELSE UNCHANGED <<votes, proposals>>
  /\ last' = Done("castVote", err)
  /\ UNCHANGED <<now, teams, members, contributions, royalties, calls>>

\* Mutant of RequestVotingExtension: the role of the requester is not checked
RequestVotingExtensionAnyMember(proposalId, requestedBy, extensionDays) ==
  LET proposal == proposals[proposalId]
      member == members[requestedBy]
      err == IF proposal = NoDoc THEN "NotFound"
             ELSE IF member = NoDoc THEN "NotAuthorized"
             ELSE "ok"
  IN
  /\ err = "ok" => proposal.expiresAt + extensionDays <= MaxExpiresAt
  /\ IF err = "ok"
       THEN proposals' = DbUpdate(proposals, proposalId,
                           [proposal EXCEPT !.expiresAt = @ + extensionDays])
       ELSE UNCHANGED proposals
  /\ last' = Done("requestVotingExtension", err)
  /\ UNCHANGED <<now, teams, members, contributions, votes, royalties, calls>>

RequestVotingExtension(proposalId, requestedBy, extensionDays) ==
  LET proposal == proposals[proposalId]
      member == members[requestedBy]
      err == IF proposal = NoDoc THEN "NotFound"
             ELSE IF member = NoDoc \/ member.role # "team_lead" THEN "NotAuthorized"
             ELSE "ok"
  IN
  /\ err = "ok" => proposal.expiresAt + extensionDays <= MaxExpiresAt
  /\ IF err = "ok"
       THEN proposals' = DbUpdate(proposals, proposalId,
                           [proposal EXCEPT !.expiresAt = @ + extensionDays])
       ELSE UNCHANGED proposals
  /\ last' = Done("requestVotingExtension", err)
  /\ UNCHANGED <<now, teams, members, contributions, votes, royalties, calls>>

----------------------------------------------------------------------------
(* ProposalManager *)

NoMetadata == [contributionId |-> "none", poolId |-> "none", milestoneId |-> "none"]

\* The proposal document createProposal builds; 0 stands for an absent option
NewProposal(type, metadata, expiresAt, quorumRequired, approvalThreshold) ==
  [type |-> type, teamId |-> "t1", status |-> "active",
   votesFor |-> 0, votesAgainst |-> 0, votesAbstain |-> 0,
   voters |-> EmptyBag,
   expiresAt |-> IF expiresAt # 0 THEN expiresAt ELSE now + DefaultExpiryDays,
   executedAt |-> Null,
   metadata |-> metadata,
   quorumRequired |-> IF quorumRequired # 0 THEN quorumRequired ELSE DefaultQuorum,
   approvalThreshold |-> IF approvalThreshold # 0 THEN approvalThreshold
                         ELSE DefaultApproval]

CreateProposal(id, type, metadata, expiresAt, quorumRequired, approvalThreshold) ==
  /\ proposals[id] = NoDoc
  /\ proposals' = [proposals EXCEPT ![id] =
       NewProposal(type, metadata, expiresAt, quorumRequired, approvalThreshold)]
  /\ last' = Done("createProposal", "ok")
  /\ UNCHANGED <<now, teams, members, contributions, votes, royalties, calls>>

\* Mutant of checkQuorum: the fraction is not multiplied by the team size
checkQuorumIgnoresTeamSize(proposal, team) ==
  LET totalVotes == proposal.votesFor + proposal.votesAgainst + proposal.votesAbstain
      quorum == proposal.quorumRequired
  IN [reached |-> totalVotes >= quorum, current |-> totalVotes, required |-> quorum]

\* totalVotes >= eligibleVoters * quorumRequired, both sides in hundredths
checkQuorum(proposal, team) ==
  LET totalVotes == proposal.votesFor + proposal.votesAgainst + proposal.votesAbstain
      eligibleVoters == Len(team.members)
      quorum == eligibleVoters * proposal.quorumRequired
  IN [reached |-> totalVotes >= quorum, current |-> totalVotes, required |-> quorum]

\* Mutant of checkApproval: a simple majority instead of the threshold
checkApprovalSimpleMajority(proposal) ==
  [passed |-> proposal.votesFor > proposal.votesAgainst]

\* votesFor / (votesFor + votesAgainst) >= approvalThreshold
checkApproval(proposal) ==
  LET totalVotes == proposal.votesFor + proposal.votesAgainst IN
  IF totalVotes = 0 THEN [passed |-> FALSE]
  ELSE [passed |-> proposal.votesFor * 100 >= proposal.approvalThreshold * totalVotes]

\* Mutant of FinalizeFailure: the status check is missing
FinalizeFailureNoStatusCheck(props, proposalId) ==
  IF props[proposalId] = NoDoc THEN "NotFound"
  ELSE IF teams[props[proposalId].teamId] = NoDoc THEN "NotFound"
  ELSE "ok"

FinalizeFailure(props, proposalId) ==
  IF props[proposalId] = NoDoc THEN "NotFound"
  ELSE IF props[proposalId].status # "active" THEN "InvalidState"
  ELSE IF teams[props[proposalId].teamId] = NoDoc THEN "NotFound"
  ELSE "ok"

\* Mutant of FinalizedProposal: the status starts as expired, not rejected
FinalizedProposalExpiredDefault(proposal) ==
  LET quorum == checkQuorum(proposal, teams[proposal.teamId])
      approval == checkApproval(proposal)
  IN IF quorum.reached /\ approval.passed
       THEN [proposal EXCEPT !.status = "passed", !.executedAt = now]
     ELSE [proposal EXCEPT !.status = "expired"]

\* Mutant of FinalizedProposal: the deadline is looked at first
FinalizedProposalDeadlineFirst(proposal) ==
  LET quorum == checkQuorum(proposal, teams[proposal.teamId])
      approval == checkApproval(proposal)
  IN IF now > proposal.expiresAt
       THEN [proposal EXCEPT !.status = "expired"]
     ELSE IF quorum.reached /\ approval.passed
       THEN [proposal EXCEPT !.status = "passed", !.executedAt = now]
     ELSE [proposal EXCEPT !.status = "rejected"]

\* The proposal document finalizeProposal writes back
FinalizedProposal(proposal) ==
  LET quorum == checkQuorum(proposal, teams[proposal.teamId])
      approval == checkApproval(proposal)
  IN IF quorum.reached /\ approval.passed
       THEN [proposal EXCEPT !.status = "passed", !.executedAt = now]
     ELSE IF now > proposal.expiresAt
       THEN [proposal EXCEPT !.status = "expired"]
     ELSE [proposal EXCEPT !.status = "rejected"]

\* Mutant of FinalizeProposal: nothing is written while the deadline has not
\* passed and quorum and approval are not both met
FinalizeProposalKeepsOpen(proposalId) ==
  LET err == FinalizeFailure(proposals, proposalId) IN
  /\ IF err = "ok" /\ FinalizedProposal(proposals[proposalId]).status # "rejected"
       THEN proposals' = DbUpdate(proposals, proposalId,
                                  FinalizedProposal(proposals[proposalId]))
       ELSE UNCHANGED proposals
  /\ last' = Done("finalizeProposal", err)
  /\ UNCHANGED <<now, teams, members, contributions, votes, royalties, calls>>

FinalizeProposal(proposalId) ==
  LET err == FinalizeFailure(proposals, proposalId) IN
  /\ IF err = "ok"
       THEN proposals' = DbUpdate(proposals, proposalId,
                                  FinalizedProposal(proposals[proposalId]))
       ELSE UNCHANGED proposals
  /\ last' = Done("finalizeProposal", err)
  /\ UNCHANGED <<now, teams, members, contributions, votes, royalties, calls>>

\* Mutant of getProposalStats: canExecute only once the deadline has passed
getProposalStatsAfterDeadline(proposal) ==
  [canExecute |-> /\ checkQuorum(proposal, teams[proposal.teamId]).reached
                  /\ checkApproval(proposal).passed
                  /\ now > proposal.expiresAt]

getProposalStats(proposal) ==
  [canExecute |-> checkQuorum(proposal, teams[proposal.teamId]).reached
                  /\ checkApproval(proposal).passed]

\* Mutant of ExecuteFailure: a proposal that is still active may be executed
ExecuteFailureAllowsActive(proposalId) ==
  IF proposals[proposalId] = NoDoc THEN "NotFound"
  ELSE IF proposals[proposalId].status \notin {"passed", "active"} THEN "InvalidState"
  ELSE "ok"

ExecuteFailure(proposalId) ==
  IF proposals[proposalId] = NoDoc THEN "NotFound"
  ELSE IF proposals[proposalId].status # "passed" THEN "InvalidState"
  ELSE "ok"

\* Mutant of ExecuteProposal: a successful execution is recorded in the status
ExecuteProposalMarksExecuted(proposalId) ==
  LET err == ExecuteFailure(proposalId)
      proposal == proposals[proposalId]
  IN
  /\ IF /\ err = "ok"
        /\ proposal.type = "contribution_verification"
        /\ proposal.metadata.contributionId \in ContribIds
        /\ contributions[proposal.metadata.contributionId] # NoDoc
       THEN contributions' = DbUpdate(contributions, proposal.metadata.contributionId,
                                      [verified |-> TRUE])
       ELSE UNCHANGED contributions
  /\ IF /\ err = "ok"
        /\ proposal.type = "milestone_approval"
        /\ teams[proposal.teamId] # NoDoc
        /\ \E i \in 1..Len(teams[proposal.teamId].milestones) :
              teams[proposal.teamId].milestones[i].id = proposal.metadata.milestoneId
       THEN LET ms == teams[proposal.teamId].milestones
                i == CHOOSE j \in 1..Len(ms) :
                       /\ ms[j].id = proposal.metadata.milestoneId
                       /\ \A k \in 1..(j-1) : ms[k].id # proposal.metadata.milestoneId
            IN teams' = DbUpdate(teams, proposal.teamId,
                          [milestones |-> [ms EXCEPT ![i].status = "completed",
                                                     ![i].completedAt = now]])
       ELSE UNCHANGED teams
  /\ IF err = "ok"
       THEN proposals' = DbUpdate(proposals, proposalId, [status |-> "executed"])
       ELSE UNCHANGED proposals
  /\ last' = Done("executeProposal", err)
  /\ UNCHANGED <<now, members, votes, royalties, calls>>

ExecuteProposal(proposalId) ==
  LET err == ExecuteFailure(proposalId)
      proposal == proposals[proposalId]
  IN
  /\ IF /\ err = "ok"
        /\ proposal.type = "contribution_verification"
        /\ proposal.metadata.contributionId \in ContribIds
        /\ contributions[proposal.metadata.contributionId] # NoDoc
       THEN contributions' = DbUpdate(contributions, proposal.metadata.contributionId,
                                      [verified |-> TRUE])
       ELSE UNCHANGED contributions
  /\ IF /\ err = "ok"
        /\ proposal.type = "milestone_approval"
        /\ teams[proposal.teamId] # NoDoc
        /\ \E i \in 1..Len(teams[proposal.teamId].milestones) :
              teams[proposal.teamId].milestones[i].id = proposal.metadata.milestoneId
       THEN LET ms == teams[proposal.teamId].milestones
                i == CHOOSE j \in 1..Len(ms) :
                       /\ ms[j].id = proposal.metadata.milestoneId
                       /\ \A k \in 1..(j-1) : ms[k].id # proposal.metadata.milestoneId
            IN teams' = DbUpdate(teams, proposal.teamId,
                          [milestones |-> [ms EXCEPT ![i].status = "completed",
                                                     ![i].completedAt = now]])
       ELSE UNCHANGED teams
  /\ last' = Done("executeProposal", err)
  /\ UNCHANGED <<now, members, proposals, votes, royalties, calls>>

----------------------------------------------------------------------------
(* RoyaltyEngine *)

DistributionModels == {"linear", "weighted", "milestone", "hybrid"}

\* list('contributions') returns the rows in one order; the model fixes it
ContribOrder == <<"c1", "c2", "c3">>

\* Mutant of getContributionsForPeriod: unverified contributions are kept
getContributionsForPeriodUnverified(teamId, startDate, endDate) ==
  SelectSeq([i \in 1..Len(ContribOrder) |-> contributions[ContribOrder[i]]],
            LAMBDA c : /\ c # NoDoc
                       /\ c.teamId = teamId
                       /\ c.timestamp >= startDate /\ c.timestamp <= endDate)

\* getContributionsForPeriod: the documents of the team that are verified and
\* whose timestamp lies in [startDate, endDate], in list order
getContributionsForPeriod(teamId, startDate, endDate) ==
  SelectSeq([i \in 1..Len(ContribOrder) |-> contributions[ContribOrder[i]]],
            LAMBDA c : /\ c # NoDoc
                       /\ c.teamId = teamId
                       /\ c.timestamp >= startDate /\ c.timestamp <= endDate
                       /\ c.verified)

\* The keys of memberContributions, in insertion order
RECURSIVE MemberKeys(_)
MemberKeys(contribs) ==
  IF contribs = <<>> THEN <<>>
  ELSE LET front == MemberKeys(SubSeq(contribs, 1, Len(contribs) - 1))
           m == contribs[Len(contribs)].memberId
       IN IF Includes(front, m) THEN front ELSE Append(front, m)

RECURSIVE SumScores(_)
SumScores(contribs) ==
  IF contribs = <<>> THEN 0 ELSE contribs[1].score + SumScores(Tail(contribs))

OfMember(contribs, m) == SelectSeq(contribs, LAMBDA c : c.memberId = m)

\* distributions.sort((a, b) => b.amount - a.amount): stable, descending
RECURSIVE SortByAmount(_)
SortByAmount(rows) ==
  IF rows = <<>> THEN <<>>
  ELSE LET sorted == SortByAmount(SubSeq(rows, 1, Len(rows) - 1))
           r == rows[Len(rows)]
           before == SelectSeq(sorted, LAMBDA x : ~RGreater(r.amount, x.amount))
           after == SelectSeq(sorted, LAMBDA x : RGreater(r.amount, x.amount))
       IN before \o <<r>> \o after

Row(memberId, amount, percentage, score, count) ==
  [memberId |-> memberId, amount |-> amount, percentage |-> percentage,
   score |-> score, contributionCount |-> count]

\* Mutant of ProportionalRows: every member gets the same share
ProportionalRowsEqualSplit(totalAmount, contribs, scale) ==
  LET keys == MemberKeys(contribs)
  IN SortByAmount(
       [i \in 1..Len(keys) |->
          LET mine == OfMember(contribs, keys[i])
              percentage == RDiv(Num(1), Num(Len(keys)))
          IN Row(keys[i], RMul(Num(totalAmount), percentage), RMul(percentage, Num(100)),
                 Rat(SumScores(mine), scale), Len(mine))])

\* Rows proportional to the members' summed scores; scores are in units of
\* 1/scale (1 for raw scores, 100 for scores weighted by two one-decimal weights)
ProportionalRows(totalAmount, contribs, scale) ==
  LET keys == MemberKeys(contribs)
      totalScore == SumScores(contribs)
  IN SortByAmount(
       [i \in 1..Len(keys) |->
          LET mine == OfMember(contribs, keys[i])
              percentage == RDiv(Num(SumScores(mine)), Num(totalScore))
          IN Row(keys[i], RMul(Num(totalAmount), percentage), RMul(percentage, Num(100)),
                 Rat(SumScores(mine), scale), Len(mine))])

calculateLinearDistribution(pool, contribs) ==
  ProportionalRows(pool.totalAmount, contribs, 1)

\* Weights in tenths
roleWeights(role) ==
  CASE role = "team_lead" -> 15
    [] role = "senior" -> 13
    [] role = "member" -> 10
    [] role = "junior" -> 8
    [] OTHER -> 10

typeWeights(type) ==
  CASE type = "code" -> 12
    [] type = "review" -> 10
    [] type = "documentation" -> 9
    [] type = "design" -> 11
    [] type = "testing" -> 10
    [] type = "research" -> 10
    [] type = "ideation" -> 8
    [] type = "presentation" -> 9
    [] OTHER -> 10

\* Contributions whose member record is missing are skipped
calculateWeightedDistribution(pool, contribs) ==
  LET known == SelectSeq(contribs, LAMBDA c : members[c.memberId] # NoDoc)
      weighted == [i \in 1..Len(known) |->
                     [known[i] EXCEPT !.score = @ * roleWeights(members[known[i].memberId].role)
                                                  * typeWeights(known[i].type)]]
  IN ProportionalRows(pool.totalAmount, weighted, 100)

CompletedMilestones(team, pool) ==
  SelectSeq(team.milestones,
            LAMBDA m : /\ m.status = "completed"
                       /\ m.completedAt >= pool.metadata.period.start
                       /\ m.completedAt <= pool.metadata.period.end)

\* Mutant of MilestoneFailure: the completed milestones are not looked at
MilestoneFailureNever(pool) ==
  "ok"

MilestoneFailure(pool) ==
  IF teams[pool.teamId] = NoDoc THEN "NoMilestones"
  ELSE IF CompletedMilestones(teams[pool.teamId], pool) = <<>> THEN "NoMilestones"
  ELSE "ok"

calculateMilestoneDistribution(pool, contribs) ==
  calculateLinearDistribution(pool, contribs)

\* 70% by the weighted split, 30% in equal shares over the contributing members
calculateHybridDistribution(pool, contribs) ==
  LET weightedDist == calculateWeightedDistribution(pool, contribs)
      memberIds == {contribs[i].memberId : i \in 1..Len(contribs)}
      total == Num(pool.totalAmount)
      equalShare == RDiv(RMul(total, Rat(3, 10)), Num(Cardinality(memberIds)))
      weightedAmount == RMul(total, Rat(7, 10))
  IN SortByAmount(
       [i \in 1..Len(weightedDist) |->
          LET dist == weightedDist[i]
              contributionAmount == RMul(RDiv(dist.amount, total), weightedAmount)
              totalAmount == RAdd(contributionAmount, equalShare)
          IN Row(dist.memberId, totalAmount, RMul(RDiv(totalAmount, total), Num(100)),
                 dist.score, dist.contributionCount)])

Distributions(pool, contribs) ==
  CASE pool.distributionModel = "weighted" -> calculateWeightedDistribution(pool, contribs)
    [] pool.distributionModel = "milestone" -> calculateMilestoneDistribution(pool, contribs)
    [] pool.distributionModel = "hybrid" -> calculateHybridDistribution(pool, contribs)
    [] OTHER -> calculateLinearDistribution(pool, contribs)

EligibleContributions(pool) ==
  getContributionsForPeriod(pool.teamId, pool.metadata.period.start,
                            pool.metadata.period.end)

\* The failure of the calculation on a pool document that was found
CalculationFailure(pool) ==
  IF EligibleContributions(pool) = <<>> THEN "NoContributions"
  ELSE IF pool.distributionModel = "milestone" THEN MilestoneFailure(pool)
  ELSE "ok"

CalculateFailure(poolId) ==
  LET pool == royalties[poolId] IN
  IF pool = NoDoc THEN "NotFound"
  ELSE CalculationFailure(pool)

\* The pool document createRoyaltyPool builds
NewPool(totalAmount, distributionModel, periodStart, periodEnd) ==
  [teamId |-> "t1", totalAmount |-> totalAmount,
   distributionModel |-> IF distributionModel # "" THEN distributionModel
                         ELSE "linear",
   status |-> "pending", distributedAt |-> Null, distributions |-> <<>>,
   metadata |-> [period |-> [start |-> periodStart, end |-> periodEnd]]]

\* The pool document calculateDistribution writes back
CalculatedPool(pool) ==
  [pool EXCEPT !.distributions = Distributions(pool, EligibleContributions(pool)),
               !.status = "calculated"]

CreateRoyaltyPool(id, totalAmount, distributionModel, periodStart, periodEnd) ==
  /\ royalties[id] = NoDoc
  /\ royalties' = [royalties EXCEPT ![id] =
       NewPool(totalAmount, distributionModel, periodStart, periodEnd)]
  /\ last' = Done("createRoyaltyPool", "ok")
  /\ UNCHANGED <<now, teams, members, contributions, proposals, votes, calls>>

CalculateDistribution(poolId) ==
  LET err == CalculateFailure(poolId)
      pool == royalties[poolId]
  IN
  /\ IF err = "ok"
       THEN royalties' = DbUpdate(royalties, poolId, CalculatedPool(pool))
       ELSE UNCHANGED royalties
  /\ last' = Done("calculateDistribution", err)
  /\ UNCHANGED <<now, teams, members, contributions, proposals, votes, calls>>

\* The rows executeDistribution pays: member && member.wallet
Payable(dist) ==
  members[dist.memberId] # NoDoc /\ members[dist.memberId].wallet

\* Mutant of ExecuteDistributionFailure: a row that cannot be paid throws
ExecuteDistributionFailureStrictPayees(poolId) ==
  IF royalties[poolId] = NoDoc THEN "NotFound"
  ELSE IF royalties[poolId].status # "calculated" THEN "InvalidState"
  ELSE IF \E i \in 1..Len(royalties[poolId].distributions) :
            ~Payable(royalties[poolId].distributions[i]) THEN "NotFound"
  ELSE "ok"

ExecuteDistributionFailure(poolId) ==
  IF royalties[poolId] = NoDoc THEN "NotFound"
  ELSE IF royalties[poolId].status # "calculated" THEN "InvalidState"
  ELSE "ok"

ExecuteDistribution(poolId) ==
  LET err == ExecuteDistributionFailure(poolId)
      pool == royalties[poolId]
  IN
  /\ IF err = "ok"
       THEN royalties' = DbUpdate(royalties, poolId,
              [pool EXCEPT !.status = "distributed", !.distributedAt = now])
       ELSE UNCHANGED royalties
  /\ last' = Done("executeDistribution", err)
  /\ UNCHANGED <<now, teams, members, contributions, proposals, votes, calls>>

----------------------------------------------------------------------------
(* ContributionTracker, milestones *)

VerifyContribution(contributionId) ==
  LET err == IF contributions[contributionId] = NoDoc THEN "NotFound" ELSE "ok" IN
  /\ IF err = "ok"
       THEN contributions' = DbUpdate(contributions, contributionId, [verified |-> TRUE])
       ELSE UNCHANGED contributions
  /\ last' = Done("verifyContribution", err)
  /\ UNCHANGED <<now, teams, members, proposals, votes, royalties, calls>>

CompleteMilestone(teamId, milestoneId) ==
  LET team == teams[teamId]
      err == IF team = NoDoc THEN "NotFound"
             ELSE IF ~\E i \in 1..Len(team.milestones) : team.milestones[i].id = milestoneId
               THEN "NotFound"
             ELSE "ok"
      i == CHOOSE j \in 1..Len(team.milestones) :
             /\ team.milestones[j].id = milestoneId
             /\ \A k \in 1..(j-1) : team.milestones[k].id # milestoneId
  IN
  /\ IF err = "ok"
       THEN teams' = DbUpdate(teams, teamId,
              [milestones |-> [team.milestones EXCEPT
                                 ![i].status = "completed", ![i].completedAt = now]])
       ELSE UNCHANGED teams
  /\ last' = Done("completeMilestone", err)
  /\ UNCHANGED <<now, members, contributions, proposals, votes, royalties, calls>>

----------------------------------------------------------------------------
(* HackathonDAO facade *)

\* vote(): castVote, then finalizeProposal when the statistics say
\* canExecute or the deadline has passed
Vote(proposalId, voterId, vote) ==
  LET err == CastVoteFailure(proposalId, voterId, vote)
      voted == DbUpdate(proposals, proposalId, VotedProposal(proposalId, voterId, vote))
      proposal == voted[proposalId]
  IN
  /\ IF err = "ok"
       THEN /\ votes' = Push(votes, VoteRecord(proposalId, voterId, vote))
            /\ proposals' =
                 IF getProposalStats(proposal).canExecute \/ now > proposal.expiresAt
                   THEN DbUpdate(voted, proposalId, FinalizedProposal(proposal))
                   ELSE voted
       ELSE UNCHANGED <<votes, proposals>>
  /\ last' = Done("vote", err)
  /\ UNCHANGED <<now, teams, members, contributions, royalties, calls>>

\* distributeRoyalties(): createRoyaltyPool with the model given (weighted
\* when none is), calculateDistribution, then either the approval proposal of
\* createRoyaltyDistributionProposal or, with requireApproval false,
\* executeDistribution at once.  A failing calculation leaves the pool
\* pending and ends the call.  poolId and proposalId are the generated ids.
DistributeRoyalties(poolId, proposalId, amount, model, periodStart, requireApproval) ==
  LET pool == NewPool(amount, IF model # "" THEN model ELSE "weighted", periodStart, now)
      err == CalculationFailure(pool)
      calculated == CalculatedPool(pool)
  IN
  /\ royalties[poolId] = NoDoc
  /\ requireApproval => proposals[proposalId] = NoDoc
  /\ IF err # "ok"
       THEN /\ royalties' = [royalties EXCEPT ![poolId] = pool]
            /\ UNCHANGED proposals
     ELSE IF requireApproval
       THEN /\ royalties' = [royalties EXCEPT ![poolId] = calculated]
            /\ proposals' = [proposals EXCEPT ![proposalId] =
                 NewProposal("royalty_distribution",
                             [NoMetadata EXCEPT !.poolId = poolId], 0, 0, 0)]
     ELSE /\ royalties' = [royalties EXCEPT ![poolId] =
                 [calculated EXCEPT !.status = "distributed", !.distributedAt = now]]
          /\ UNCHANGED proposals
  /\ last' = Done("distributeRoyalties", err)
  /\ UNCHANGED <<now, teams, members, contributions, votes, calls>>

----------------------------------------------------------------------------
(* TeamManager, MemberManager *)

AddMember(teamId, memberId) ==
  LET team == teams[teamId]
      err == IF team = NoDoc THEN "NotFound"
             ELSE IF Len(team.members) >= DefaultMaxMembers THEN "TeamFull"
             ELSE IF Includes(team.members, memberId) THEN "AlreadyMember"
             ELSE "ok"
  IN
  /\ IF err = "ok"
       THEN teams' = DbUpdate(teams, teamId, [members |-> Append(team.members, memberId)])
       ELSE UNCHANGED teams
  /\ last' = Done("addMember", err)
  /\ UNCHANGED <<now, members, contributions, proposals, votes, royalties, calls>>

RemoveMember(teamId, memberId) ==
  LET team == teams[teamId]
      err == IF team = NoDoc THEN "NotFound"
             ELSE IF ~Includes(team.members, memberId) THEN "NotMember"
             ELSE "ok"
  IN
  /\ IF err = "ok"
       THEN teams' = DbUpdate(teams, teamId,
                       [members |-> Splice(team.members, IndexOf(team.members, memberId))])
       ELSE UNCHANGED teams
  /\ last' = Done("removeMember", err)
  /\ UNCHANGED <<now, members, contributions, proposals, votes, royalties, calls>>

\* Mutant of UpdateReputation: the member's recorded ballots are re-weighted
UpdateReputationReweighs(memberId, change) ==
  LET member == members[memberId]
      err == IF member = NoDoc THEN "NotFound" ELSE "ok"
      newReputation == Max(0, Min(MaxReputation, member.reputation + change))
      newWeight == (1000 + Max(0, Min(500, newReputation - 100))
                    + roleBonus(member.role) + 5) \div 10
  IN
  /\ IF err = "ok"
       THEN /\ members' = DbUpdate(members, memberId, [reputation |-> newReputation])
            /\ votes' = SetToBag({[b EXCEPT !.weight = IF b.voterId = memberId
                                                         THEN newWeight ELSE @] :
                                   b \in BagToSet(votes)})
       ELSE UNCHANGED <<members, votes>>
  /\ last' = Done("updateReputation", err)
  /\ UNCHANGED <<now, teams, contributions, proposals, royalties, calls>>

UpdateReputation(memberId, change) ==
  LET member == members[memberId]
      err == IF member = NoDoc THEN "NotFound" ELSE "ok"
  IN
  /\ IF err = "ok"
       THEN members' = DbUpdate(members, memberId,
              [reputation |-> Max(0, Min(MaxReputation, member.reputation + change))])
       ELSE UNCHANGED members
  /\ last' = Done("updateReputation", err)
  /\ UNCHANGED <<now, teams, contributions, proposals, votes, royalties, calls>>

----------------------------------------------------------------------------
(* Time *)

\* Behaviour depends on differences of times only, so the clock is held
\* until the first proposal or pool exists.
Tick ==
  /\ now < MaxNow
  /\ \/ \E p \in ProposalIds : proposals[p] # NoDoc
     \/ \E r \in PoolIds : royalties[r] # NoDoc
  /\ now' = now + 1
  /\ last' = Done("tick", "ok")
  /\ UNCHANGED <<teams, members, contributions, proposals, votes, royalties, calls>>

----------------------------------------------------------------------------
(* Governance specification *)

Contribution(id, teamId, memberId, type, score, verified, timestamp) ==
  [id |-> id, teamId |-> teamId, memberId |-> memberId, type |-> type, score |-> score,
   verified |-> verified, timestamp |-> timestamp]

Member(role, reputation, wallet) ==
  [role |-> role, reputation |-> reputation, wallet |-> wallet]

Init ==
  /\ now = 1
  /\ teams = [t \in TeamIds |-> [members |-> <<"m1", "m2", "m3">>, milestones |-> <<>>]]
  /\ members = [m \in MemberIds |->
                  CASE m = "m1" -> Member("team_lead", StartingReputation, TRUE)
                    [] m = "m2" -> Member("member", StartingReputation, TRUE)
                    [] OTHER -> NoDoc]
  /\ contributions = [c \in ContribIds |->
                  CASE c = "c1" -> Contribution(c, "t1", "m1", "code", 100, FALSE, 1)
                    [] c = "c2" -> Contribution(c, "t1", "m2", "documentation", 100, TRUE, 1)
                    [] OTHER -> NoDoc]
  /\ proposals = [p \in ProposalIds |-> NoDoc]
  /\ votes = EmptyBag
  /\ royalties = [r \in PoolIds |-> NoDoc]
  /\ last = Done("init", "ok")
  /\ calls = [k \in CallIds |-> Idle]

ProposalInputs ==
  {<<"contribution_verification", [NoMetadata EXCEPT !.contributionId = "c1"]>>}

QuorumInputs == {0}

ReputationChanges == {1000}

Next ==
  \/ \E p \in ProposalIds, i \in ProposalInputs, q \in QuorumInputs :
       CreateProposal(p, i[1], i[2], now, q, 0)
  \/ \E p \in ProposalIds, m \in MemberIds, v \in VoteInputs : CastVote(p, m, v)
  \/ \E p \in ProposalIds, m \in MemberIds, v \in VoteOptions : Vote(p, m, v)
  \/ \E p \in ProposalIds : FinalizeProposal(p)
  \/ \E p \in ProposalIds : ExecuteProposal(p)
  \/ \E p \in ProposalIds, m \in MemberIds :
       RequestVotingExtension(p, m, DefaultExtensionDays)
  \/ \E m \in {"m3"} : AddMember("t1", m)
  \/ \E m \in {"m3"} : RemoveMember("t1", m)
  \/ \E m \in {"m1"}, d \in ReputationChanges : UpdateReputation(m, d)
  \/ Tick

Spec == Init /\ [][Next]_vars

\* The governance specification with callers that keep invoking
\* finalizeProposal: nothing in the code calls it on its own, so the fairness
\* is an assumption on the callers.
FairSpec == Spec /\ WF_vars(\E p \in ProposalIds : FinalizeProposal(p))

----------------------------------------------------------------------------
(* Royalty specification: the contributions of one period with their scores *)
(* drawn from small sets, then pools created, calculated and executed while *)
(* contributions get verified and the milestone completed.                  *)

Milestone(id) == [id |-> id, status |-> "pending", completedAt |-> Null]

RoyaltyInit ==
  /\ now = 1
  /\ teams = [t \in TeamIds |->
                [members |-> <<"m1", "m2", "m3">>, milestones |-> <<Milestone("ms1")>>]]
  /\ members = [m \in MemberIds |->
                  CASE m = "m1" -> Member("team_lead", StartingReputation, TRUE)
                    [] m = "m2" -> Member("member", StartingReputation, FALSE)
                    [] OTHER -> NoDoc]
  /\ \E s1 \in {0, 100, 300}, s2 \in {100, 700}, s3 \in {100} :
       contributions = [c \in ContribIds |->
                  CASE c = "c1" -> Contribution(c, "t1", "m1", "code", s1, FALSE, 1)
                    [] c = "c2" -> Contribution(c, "t1", "m2", "documentation", s2, FALSE, 1)
                    [] OTHER -> Contribution(c, "t1", "m3", "code", s3, FALSE, 1)]
  /\ proposals = [p \in ProposalIds |-> NoDoc]
  /\ votes = EmptyBag
  /\ royalties = [r \in PoolIds |-> NoDoc]
  /\ last = Done("init", "ok")
  /\ calls = [k \in CallIds |-> Idle]

AmountInputs == {-1000, 0, 1000}

RoyaltyNext ==
  \/ \E r \in PoolIds, a \in AmountInputs, dm \in DistributionModels :
       CreateRoyaltyPool(r, a, dm, 1, 1)
  \/ \E r \in PoolIds : CalculateDistribution(r)
  \/ \E r \in PoolIds : ExecuteDistribution(r)
  \/ \E c \in ContribIds : VerifyContribution(c)
  \/ CompleteMilestone("t1", "ms1")

RoyaltySpec == RoyaltyInit /\ [][RoyaltyNext]_vars

----------------------------------------------------------------------------
(* Period specification: contributions inside and outside the period of the *)
(* pool, of the pool's team and of another team, verified one by one while  *)
(* pools of every model are created and calculated.                         *)

PeriodInit ==
  /\ now = 1
  /\ teams = [t \in TeamIds |->
                [members |-> <<"m1", "m2", "m3">>,
                 milestones |-> <<[Milestone("ms1") EXCEPT !.status = "completed",
                                                           !.completedAt = 1]>>]]
  /\ members = [m \in MemberIds |->
                  CASE m = "m1" -> Member("team_lead", StartingReputation, TRUE)
                    [] m = "m2" -> Member("member", StartingReputation, FALSE)
                    [] OTHER -> NoDoc]
  /\ \E t1 \in {0, 1, 2}, team2 \in {"t1", "t2"} :
       contributions = [c \in ContribIds |->
                  CASE c = "c1" -> Contribution(c, "t1", "m1", "code", 300, FALSE, t1)
                    [] c = "c2" -> Contribution(c, team2, "m2", "documentation", 700, FALSE, 1)
                    [] OTHER -> Contribution(c, "t1", "m3", "code", 100, FALSE, 1)]
  /\ proposals = [p \in ProposalIds |-> NoDoc]
  /\ votes = EmptyBag
  /\ royalties = [r \in PoolIds |-> NoDoc]
  /\ last = Done("init", "ok")
  /\ calls = [k \in CallIds |-> Idle]

PeriodNext ==
  \/ \E r \in PoolIds, dm \in DistributionModels : CreateRoyaltyPool(r, 1000, dm, 1, 1)
  \/ \E r \in PoolIds : CalculateDistribution(r)
  \/ \E c \in ContribIds : VerifyContribution(c)

PeriodSpec == PeriodInit /\ [][PeriodNext]_vars

----------------------------------------------------------------------------
(* Weight specification: the inputs of calculateVoteWeight drawn from       *)
(* bounded sets.  m1 has a role out of Roles and between none and           *)
(* MaxContributions verified contributions (the store rows are numbered     *)
(* here); its reputation moves through [0, MaxReputation] by                *)
(* updateReputation; m3 has no member record.  Ballots are cast on one      *)
(* proposal so that the weights get recorded.                               *)

Roles == {"team_lead", "senior", "member", "admin"}

VerifiedCounts == {0, 1, 15, MaxContributions}

WeightInit ==
  /\ now = 1
  /\ teams = [t \in TeamIds |-> [members |-> <<"m1", "m2", "m3">>, milestones |-> <<>>]]
  /\ \E role \in Roles :
       members = [m \in MemberIds |->
                  CASE m = "m1" -> Member(role, StartingReputation, TRUE)
                    [] m = "m2" -> Member("member", StartingReputation, TRUE)
                    [] OTHER -> NoDoc]
  /\ \E n \in VerifiedCounts :
       contributions = [c \in 1..MaxContributions |->
                          Contribution(c, "t1", "m1", "code", 100, c <= n, 1)]
  /\ proposals = [p \in ProposalIds |-> NoDoc]
  /\ votes = EmptyBag
  /\ royalties = [r \in PoolIds |-> NoDoc]
  /\ last = Done("init", "ok")
  /\ calls = [k \in CallIds |-> Idle]

WeightNext ==
  \/ \E p \in ProposalIds : CreateProposal(p, "general", NoMetadata, now, 0, 0)
  \/ \E p \in ProposalIds, m \in MemberIds, v \in {"for"} : CastVote(p, m, v)
  \/ \E m \in {"m1", "m3"}, d \in {-100, 250, 1000} : UpdateReputation(m, d)

WeightSpec == WeightInit /\ [][WeightNext]_vars

----------------------------------------------------------------------------
(* Execution specification: proposals of every type are created, voted on,  *)
(* finalized and executed, and royalties are distributed through the facade *)
(* with and without an approval proposal.                                   *)

DaoInit ==
  /\ now = 1
  /\ teams = [t \in TeamIds |->
                [members |-> <<"m1", "m2", "m3">>,
                 milestones |-> <<Milestone("ms1"), Milestone("ms2")>>]]
  /\ members = [m \in MemberIds |->
                  CASE m = "m1" -> Member("team_lead", StartingReputation, TRUE)
                    [] m = "m2" -> Member("member", StartingReputation, TRUE)
                    [] OTHER -> NoDoc]
  /\ contributions = [c \in ContribIds |->
                  CASE c = "c1" -> Contribution(c, "t1", "m1", "code", 100, FALSE, 1)
                    [] c = "c2" -> Contribution(c, "t1", "m2", "documentation", 100, TRUE, 1)
                    [] OTHER -> NoDoc]
  /\ proposals = [p \in ProposalIds |-> NoDoc]
  /\ votes = EmptyBag
  /\ royalties = [r \in PoolIds |-> NoDoc]
  /\ last = Done("init", "ok")
  /\ calls = [k \in CallIds |-> Idle]

DaoProposalInputs ==
  {<<"contribution_verification", [NoMetadata EXCEPT !.contributionId = "c1"]>>,
   <<"contribution_verification", [NoMetadata EXCEPT !.contributionId = "c3"]>>,
   <<"milestone_approval", [NoMetadata EXCEPT !.milestoneId = "ms2"]>>,
   <<"milestone_approval", NoMetadata>>,
   <<"general", NoMetadata>>}

DaoNext ==
  \/ \E p \in ProposalIds, i \in DaoProposalInputs :
       CreateProposal(p, i[1], i[2], now, 0, 0)
  \/ \E r \in PoolIds, p \in ProposalIds, dm \in {"linear", "milestone"},
        approval \in BOOLEAN :
       DistributeRoyalties(r, p, 1000, dm, 1, approval)
  \/ \E p \in ProposalIds, m \in {"m1", "m2"}, v \in {"for", "against"} :
       CastVote(p, m, v)
  \/ \E p \in ProposalIds : FinalizeProposal(p)
  \/ \E p \in ProposalIds : ExecuteProposal(p)
  \/ \E r \in PoolIds : ExecuteDistribution(r)
  \/ Tick

DaoSpec == DaoInit /\ [][DaoNext]_vars

----------------------------------------------------------------------------
(* Interleaving specification.  castVote, finalizeProposal and              *)
(* requestVotingExtension are async functions: between two awaits of a      *)
(* store call another call may run.  db.get hands out a copy of the stored  *)
(* document (JSON.parse), the function works on that copy, and db.update    *)
(* writes every field of the copy back.  A step below is one store call     *)
(* with the synchronous code that follows it.  Reads of teams, members and  *)
(* contributions that follow each other are one step: no call of this       *)
(* specification writes those collections.                                  *)

\* A slot takes one call: CallIds bounds the calls made in one behaviour
Free(k) == calls[k] = Idle

Finish(call, err) == [call EXCEPT !.pc = "done", !.err = err]

\* The copy of the proposal after proposal.voters.push and the switch
Tallied(proposal, voterId, vote, weight) ==
  [proposal EXCEPT
     !.voters = Push(@, voterId),
     !.votesFor = IF vote = "for" THEN @ + weight ELSE @,
     !.votesAgainst = IF vote = "against" THEN @ + weight ELSE @,
     !.votesAbstain = IF vote = "abstain" THEN @ + weight ELSE @]

\* castVote is called: db.get('proposals') and the checks of the copy
BeginCastVote(k, proposalId, voterId, vote) ==
  LET proposal == proposals[proposalId]
      err == IF proposal = NoDoc THEN "NotFound"
             ELSE IF proposal.status # "active" THEN "InvalidState"
             ELSE IF now > proposal.expiresAt THEN "Expired"
             ELSE "ok"
      call == [Idle EXCEPT !.op = "castVote", !.pc = "checkVoterEligibility",
                           !.proposalId = proposalId, !.memberId = voterId,
                           !.vote = vote, !.proposal = proposal]
  IN
  /\ Free(k)
  /\ calls' = [calls EXCEPT ![k] = IF err = "ok" THEN call ELSE Finish(call, err)]
  /\ last' = IF err = "ok" THEN last ELSE Done("castVote", err)
  /\ UNCHANGED <<now, teams, members, contributions, proposals, votes, royalties>>

\* checkVoterEligibility reads the store; the duplicate check reads the copy
CastVoteEligibility(k) ==
  LET call == calls[k]
      err == IF ~checkVoterEligibility(call.proposalId, call.memberId) THEN "NotEligible"
             ELSE IF BagIn(call.memberId, call.proposal.voters) THEN "DuplicateVote"
             ELSE IF call.vote \notin VoteOptions THEN "InvalidArgument"
             ELSE "ok"
  IN
  /\ call.op = "castVote" /\ call.pc = "checkVoterEligibility"
  /\ calls' = [calls EXCEPT ![k] = IF err = "ok"
                                     THEN [call EXCEPT !.pc = "calculateVoteWeight"]
                                     ELSE Finish(call, err)]
  /\ last' = IF err = "ok" THEN last ELSE Done("castVote", err)
  /\ UNCHANGED <<now, teams, members, contributions, proposals, votes, royalties>>

CastVoteWeight(k) ==
  LET call == calls[k] IN
  /\ call.op = "castVote" /\ call.pc = "calculateVoteWeight"
  /\ calls' = [calls EXCEPT ![k] =
       [call EXCEPT !.pc = "insert",
                    !.weight = calculateVoteWeight(call.memberId, call.proposal.teamId)]]
  /\ UNCHANGED <<now, teams, members, contributions, proposals, votes, royalties, last>>

\* db.insert('votes', voteRecord), then the copy is brought up to date
CastVoteInsert(k) ==
  LET call == calls[k] IN
  /\ call.op = "castVote" /\ call.pc = "insert"
  /\ votes' = Push(votes, [proposalId |-> call.proposalId, voterId |-> call.memberId,
                           vote |-> call.vote, weight |-> call.weight])
  /\ calls' = [calls EXCEPT ![k] =
       [call EXCEPT !.pc = "update",
                    !.proposal = Tallied(@, call.memberId, call.vote, call.weight)]]
  /\ UNCHANGED <<now, teams, members, contributions, proposals, royalties, last>>

\* Mutant of CastVoteUpdate: the vote is added to the stored document, not to
\* the copy read at the start
CastVoteUpdateOnStored(k) ==
  LET call == calls[k] IN
  /\ call.op = "castVote" /\ call.pc = "update"
  /\ proposals' = DbUpdate(proposals, call.proposalId,
       Tallied(proposals[call.proposalId], call.memberId, call.vote, call.weight))
  /\ calls' = [calls EXCEPT ![k] = Finish(call, "ok")]
  /\ last' = Done("castVote", "ok")
  /\ UNCHANGED <<now, teams, members, contributions, votes, royalties>>

\* db.update('proposals', proposalId, proposal) with the copy
CastVoteUpdate(k) ==
  LET call == calls[k] IN
  /\ call.op = "castVote" /\ call.pc = "update"
  /\ proposals' = DbUpdate(proposals, call.proposalId, call.proposal)
  /\ calls' = [calls EXCEPT ![k] = Finish(call, "ok")]
  /\ last' = Done("castVote", "ok")
  /\ UNCHANGED <<now, teams, members, contributions, votes, royalties>>

\* finalizeProposal is called: getProposal and the checks of the copy
BeginFinalizeProposal(k, proposalId) ==
  LET proposal == proposals[proposalId]
      err == IF proposal = NoDoc THEN "NotFound"
             ELSE IF proposal.status # "active" THEN "InvalidState"
             ELSE "ok"
      call == [Idle EXCEPT !.op = "finalizeProposal", !.pc = "checkQuorum",
                           !.proposalId = proposalId, !.proposal = proposal]
  IN
  /\ Free(k)
  /\ calls' = [calls EXCEPT ![k] = IF err = "ok" THEN call ELSE Finish(call, err)]
  /\ last' = IF err = "ok" THEN last ELSE Done("finalizeProposal", err)
  /\ UNCHANGED <<now, teams, members, contributions, proposals, votes, royalties>>

\* checkQuorum reads the proposal and the team again
FinalizeCheckQuorum(k) ==
  LET call == calls[k]
      proposal == proposals[call.proposalId]
      team == teams[proposal.teamId]
  IN
  /\ call.op = "finalizeProposal" /\ call.pc = "checkQuorum"
  /\ calls' = [calls EXCEPT ![k] =
       IF team = NoDoc THEN Finish(call, "NotFound")
       ELSE [call EXCEPT !.pc = "checkApproval",
                         !.quorumReached = checkQuorum(proposal, team).reached]]
  /\ last' = IF team = NoDoc THEN Done("finalizeProposal", "NotFound") ELSE last
  /\ UNCHANGED <<now, teams, members, contributions, proposals, votes, royalties>>

\* checkApproval reads the proposal again; the status is then set in the copy
FinalizeCheckApproval(k) ==
  LET call == calls[k]
      approval == checkApproval(proposals[call.proposalId])
  IN
  /\ call.op = "finalizeProposal" /\ call.pc = "checkApproval"
  /\ calls' = [calls EXCEPT ![k] =
       [call EXCEPT !.pc = "update",
                    !.proposal =
                       IF call.quorumReached /\ approval.passed
                         THEN [@ EXCEPT !.status = "passed", !.executedAt = now]
                       ELSE IF now > @.expiresAt
                         THEN [@ EXCEPT !.status = "expired"]
                       ELSE [@ EXCEPT !.status = "rejected"]]]
  /\ UNCHANGED <<now, teams, members, contributions, proposals, votes, royalties, last>>

FinalizeUpdate(k) ==
  LET call == calls[k] IN
  /\ call.op = "finalizeProposal" /\ call.pc = "update"
  /\ proposals' = DbUpdate(proposals, call.proposalId, call.proposal)
  /\ calls' = [calls EXCEPT ![k] = Finish(call, "ok")]
  /\ last' = Done("finalizeProposal", "ok")
  /\ UNCHANGED <<now, teams, members, contributions, votes, royalties>>

\* requestVotingExtension is called: db.get('proposals')
BeginRequestVotingExtension(k, proposalId, requestedBy, extensionDays) ==
  LET proposal == proposals[proposalId]
      call == [Idle EXCEPT !.op = "requestVotingExtension", !.pc = "authorize",
                           !.proposalId = proposalId, !.memberId = requestedBy,
                           !.days = extensionDays, !.proposal = proposal]
  IN
  /\ Free(k)
  /\ proposal # NoDoc => proposal.expiresAt + extensionDays <= MaxExpiresAt
  /\ calls' = [calls EXCEPT ![k] = IF proposal # NoDoc THEN call
                                     ELSE Finish(call, "NotFound")]
  /\ last' = IF proposal # NoDoc THEN last
             ELSE Done("requestVotingExtension", "NotFound")
  /\ UNCHANGED <<now, teams, members, contributions, proposals, votes, royalties>>

\* db.get('members'), the role check, and the new deadline set in the copy
ExtensionAuthorize(k) ==
  LET call == calls[k]
      member == members[call.memberId]
      authorized == member # NoDoc /\ member.role = "team_lead"
  IN
  /\ call.op = "requestVotingExtension" /\ call.pc = "authorize"
  /\ calls' = [calls EXCEPT ![k] =
       IF authorized
         THEN [call EXCEPT !.pc = "update", !.proposal.expiresAt = @ + call.days]
         ELSE Finish(call, "NotAuthorized")]
  /\ last' = IF authorized THEN last
             ELSE Done("requestVotingExtension", "NotAuthorized")
  /\ UNCHANGED <<now, teams, members, contributions, proposals, votes, royalties>>

ExtensionUpdate(k) ==
  LET call == calls[k] IN
  /\ call.op = "requestVotingExtension" /\ call.pc = "update"
  /\ proposals' = DbUpdate(proposals, call.proposalId, call.proposal)
  /\ calls' = [calls EXCEPT ![k] = Finish(call, "ok")]
  /\ last' = Done("requestVotingExtension", "ok")
  /\ UNCHANGED <<now, teams, members, contributions, votes, royalties>>

RaceNext ==
  \/ \E p \in ProposalIds : CreateProposal(p, "general", NoMetadata, now, 0, 0)
  \/ \E k \in CallIds, p \in ProposalIds, m \in {"m1", "m2"}, v \in {"for", "against"} :
       BeginCastVote(k, p, m, v)
  \/ \E k \in CallIds : CastVoteEligibility(k)
  \/ \E k \in CallIds : CastVoteWeight(k)
  \/ \E k \in CallIds : CastVoteInsert(k)
  \/ \E k \in CallIds : CastVoteUpdate(k)
  \/ \E k \in CallIds, p \in ProposalIds : BeginFinalizeProposal(k, p)
  \/ \E k \in CallIds : FinalizeCheckQuorum(k)
  \/ \E k \in CallIds : FinalizeCheckApproval(k)
  \/ \E k \in CallIds : FinalizeUpdate(k)
  \/ \E k \in CallIds, p \in ProposalIds, m \in {"m1", "m2"} :
       BeginRequestVotingExtension(k, p, m, DefaultExtensionDays)
  \/ \E k \in CallIds : ExtensionAuthorize(k)
  \/ \E k \in CallIds : ExtensionUpdate(k)
  \/ Tick

RaceSpec == Init /\ [][RaceNext]_vars

----------------------------------------------------------------------------
(* Properties *)

Exists(p) == proposals[p] # NoDoc

TotalVotes(p) ==
  proposals[p].votesFor + proposals[p].votesAgainst + proposals[p].votesAbstain

TeamSize(p) == Len(teams[proposals[p].teamId].members)

\* The ballots of the votes collection that belong to proposal p
BallotsOf(p) == {b \in BagToSet(votes) : b.proposalId = p}

Open(p) == Exists(p) /\ proposals[p].status = "active" /\ now <= proposals[p].expiresAt

\* C1, as stated: a castVote by a member who is already in voters always
\* fails with DuplicateVote.
C1_SecondVoteAlwaysDuplicate ==
  [][\A p \in ProposalIds, m \in MemberIds, v \in VoteInputs :
       (last'.op = "castVote"
          /\ Exists(p) /\ BagIn(m, proposals[p].voters) /\ CastVote(p, m, v))
         => last'.err = "DuplicateVote"]_vars

\* C1, amended: no member id appears twice in voters; a castVote (directly or
\* through the facade's vote) by a member who is already in voters always
\* fails and records no ballot, and it fails with DuplicateVote whenever the
\* proposal is still active and unexpired and the member still in the team.
C1_VoteUniqueness ==
  [][\A p \in ProposalIds :
       /\ Exists(p) => \A m \in MemberIds : CopiesIn(m, proposals'[p].voters) <= 1
       /\ \A m \in MemberIds, v \in VoteInputs :
            (last'.op \in {"castVote", "vote"}
               /\ Exists(p) /\ BagIn(m, proposals[p].voters)
               /\ (CastVote(p, m, v) \/ Vote(p, m, v)))
              => /\ last'.err \in {"InvalidState", "Expired", "NotEligible", "DuplicateVote"}
                 /\ UNCHANGED <<votes, proposals>>
                 /\ (Open(p) /\ Includes(teams[proposals[p].teamId].members, m))
                      => last'.err = "DuplicateVote"]_vars

C1_Witness ==
  /\ last = Done("castVote", "DuplicateVote")
  /\ \E p \in ProposalIds : Exists(p) /\ BagCardinality(proposals[p].voters) = 2

\* C2: the three tallies of a proposal add up to the weights of the ballots
\* stored for it.
C2_TallyConservation ==
  \A p \in ProposalIds :
    Exists(p) => TotalVotes(p) = SumOver(votes, BallotsOf(p))

C2_Witness ==
  \E p \in ProposalIds :
    /\ Exists(p)
    /\ proposals[p].votesFor > 0 /\ proposals[p].votesAgainst > 0
    /\ proposals[p].votesAbstain > 0
    /\ BagCardinality(votes) = 3

\* C3: a status changes only inside finalizeProposal (called directly or by
\* the facade's vote), only from active to passed, rejected or expired; a
\* terminal status never changes; finalizeProposal on a proposal that is not
\* active fails with InvalidState and leaves the proposal as it was.
C3_StatusStateMachine ==
  [][\A p \in ProposalIds :
       Exists(p) =>
         /\ Exists(p)'
         /\ proposals'[p].status # proposals[p].status
              => /\ proposals[p].status = "active"
                 /\ proposals'[p].status \in Terminal
                 /\ last'.op \in {"finalizeProposal", "vote"}
         /\ proposals[p].status \in Terminal
              => proposals'[p].status = proposals[p].status
         /\ (last'.op = "finalizeProposal" /\ proposals[p].status # "active"
               /\ FinalizeProposal(p))
              => last'.err = "InvalidState" /\ proposals' = proposals]_vars

C3_Witness ==
  /\ last = Done("finalizeProposal", "InvalidState")
  /\ \E p \in ProposalIds : Exists(p) /\ proposals[p].status \in Terminal

C7_FewVotersExpire ==
  [][\A p \in ProposalIds :
       (last'.op = "finalizeProposal"
          /\ Exists(p) /\ proposals[p].status = "active" /\ now > proposals[p].expiresAt
          /\ BagCardinality(proposals[p].voters) * 100
               < TeamSize(p) * proposals[p].quorumRequired
          /\ FinalizeProposal(p))
         => proposals'[p].status = "expired"]_vars

\* C7, amended: when the weighted total of the ballots cast is below N * q
\* and the deadline has passed, finalizeProposal yields expired, never
\* passed, whatever the options of the ballots.
C7_LowWeightExpires ==
  [][\A p \in ProposalIds :
       (last'.op = "finalizeProposal"
          /\ Exists(p) /\ proposals[p].status = "active" /\ now > proposals[p].expiresAt
          /\ SumOver(votes, BallotsOf(p)) < TeamSize(p) * proposals[p].quorumRequired
          /\ FinalizeProposal(p))
         => proposals'[p].status = "expired" /\ proposals'[p].executedAt = Null]_vars

C7_Witness ==
  /\ last = Done("finalizeProposal", "ok")
  /\ \E p \in ProposalIds :
       /\ Exists(p) /\ proposals[p].status = "expired"
       /\ proposals[p].votesFor > 0 /\ proposals[p].votesAgainst = 0
       /\ BagCardinality(proposals[p].voters) = 1
       /\ TeamSize(p) = 3

\* C8: finalizeProposal on an active, unexpired proposal whose quorum is
\* reached but whose approval fraction is below the threshold sets the
\* status to rejected and does not stamp executedAt.
C8_ApprovalFailure ==
  [][\A p \in ProposalIds :
       (last'.op = "finalizeProposal" /\ Open(p) /\ FinalizeProposal(p)
          /\ TotalVotes(p) >= TeamSize(p) * proposals[p].quorumRequired
          /\ proposals[p].votesFor * 100 <
               proposals[p].approvalThreshold
                 * (proposals[p].votesFor + proposals[p].votesAgainst))
         => proposals'[p].status = "rejected" /\ proposals'[p].executedAt = Null]_vars

C8_Witness ==
  /\ last = Done("finalizeProposal", "ok")
  /\ \E p \in ProposalIds :
       /\ Exists(p) /\ proposals[p].status = "rejected"
       /\ now <= proposals[p].expiresAt
       /\ TotalVotes(p) >= TeamSize(p) * proposals[p].quorumRequired
       /\ proposals[p].votesFor > 0 /\ proposals[p].votesAgainst > 0

\* C10: a castVote that violates a precondition fails, the failure names a
\* precondition that is violated (six failures, one per precondition), no
\* ballot is inserted and the stored proposal is unchanged.
C10_CastVoteValidation ==
  [][\A p \in ProposalIds, m \in MemberIds, v \in VoteInputs :
       (last'.op = "castVote" /\ CastVote(p, m, v)) =>
         LET missing == ~Exists(p)
             inactive == Exists(p) /\ proposals[p].status # "active"
             expired == Exists(p) /\ now > proposals[p].expiresAt
             outsider == Exists(p) /\ ~Includes(teams[proposals[p].teamId].members, m)
             voted == Exists(p) /\ BagIn(m, proposals[p].voters)
             badOption == v \notin {"for", "against", "abstain"}
             err == last'.err
         IN /\ err = "NotFound" => missing
            /\ err = "InvalidState" => inactive
            /\ err = "Expired" => expired
            /\ err = "NotEligible" => outsider
            /\ err = "DuplicateVote" => voted
            /\ err = "InvalidArgument" => badOption
            /\ (missing \/ inactive \/ expired \/ outsider \/ voted \/ badOption)
                 => /\ err \in {"NotFound", "InvalidState", "Expired", "NotEligible",
                                "DuplicateVote", "InvalidArgument"}
                    /\ UNCHANGED <<votes, proposals>>
            /\ ~(missing \/ inactive \/ expired \/ outsider \/ voted \/ badOption)
                 => err = "ok" /\ BagCardinality(votes') = BagCardinality(votes) + 1]_vars

C10_Witness ==
  /\ last = Done("castVote", "InvalidArgument")
  /\ \E p \in ProposalIds : Open(p) /\ BagCardinality(votes) = 1

Rank(status) ==
  CASE status = "pending" -> 0
    [] status = "calculated" -> 1
    [] OTHER -> 2

\* C4: a pool's status never moves backward in pending < calculated <
\* distributed, and calculateDistribution on a distributed pool fails with
\* InvalidState and leaves the pool as it was.
C4_PoolStatusForward ==
  [][\A r \in PoolIds :
       royalties[r] # NoDoc =>
         /\ royalties'[r] # NoDoc
         /\ Rank(royalties'[r].status) >= Rank(royalties[r].status)
         /\ (last'.op = "calculateDistribution" /\ royalties[r].status = "distributed"
               /\ CalculateDistribution(r))
              => last'.err = "InvalidState" /\ royalties' = royalties]_vars

Amounts(rows) == [i \in 1..Len(rows) |-> rows[i].amount]
Percentages(rows) == [i \in 1..Len(rows) |-> rows[i].percentage]

\* C5: after a calculateDistribution that completed, the amounts of the
\* stored rows sum to totalAmount and the percentages to 100.
C5_DistributionConservation ==
  \A r \in PoolIds :
    (last = Done("calculateDistribution", "ok") /\ royalties[r] # NoDoc)
      => /\ RSum(Amounts(royalties[r].distributions)) = Num(royalties[r].totalAmount)
         /\ RSum(Percentages(royalties[r].distributions)) = Num(100)

EligibleMembers(r) ==
  LET cs == EligibleContributions(royalties[r])
  IN {cs[i].memberId : i \in 1..Len(cs)}

\* C9: when the eligible contributions of a pool belong to exactly one
\* member, calculateDistribution completes under every model and stores a
\* single row, for that member, with the whole totalAmount.
C9_SingleContributor ==
  \A r \in PoolIds :
    (last.op = "calculateDistribution" /\ royalties[r] # NoDoc
       /\ Cardinality(EligibleMembers(r)) = 1)
      => /\ last.err = "ok"
         /\ Len(royalties[r].distributions) = 1
         /\ royalties[r].distributions[1].memberId \in EligibleMembers(r)
         /\ royalties[r].distributions[1].amount = Num(royalties[r].totalAmount)

\* C11: executeDistribution succeeds exactly on a calculated pool; then it
\* sets the status to distributed and stamps distributedAt, also when a row's
\* member has no wallet or no record; on a pending or distributed pool it
\* fails with InvalidState and leaves the pool as it was.
C11_ExecuteDistribution ==
  [][\A r \in PoolIds :
       (last'.op = "executeDistribution" /\ royalties[r] # NoDoc
          /\ ExecuteDistribution(r))
         => IF royalties[r].status = "calculated"
              THEN /\ last'.err = "ok"
                   /\ royalties'[r].status = "distributed"
                   /\ royalties'[r].distributedAt = now
                   /\ royalties'[r].distributions = royalties[r].distributions
                   /\ royalties'[r].totalAmount = royalties[r].totalAmount
              ELSE /\ last'.err = "InvalidState"
                   /\ royalties' = royalties]_vars

C11_Witness ==
  /\ last = Done("executeDistribution", "ok")
  /\ \E r \in PoolIds :
       /\ royalties[r] # NoDoc /\ royalties[r].status = "distributed"
       /\ \E i, j, k \in 1..Len(royalties[r].distributions) :
            LET rows == royalties[r].distributions
            IN /\ Payable(rows[i])
               /\ members[rows[j].memberId] = NoDoc
               /\ members[rows[k].memberId] # NoDoc /\ ~members[rows[k].memberId].wallet

NonNegative(x) == x.d > 0 /\ x.n >= 0

\* C15: every stored pool has totalAmount >= 0 and every stored distribution
\* row has amount >= 0 (a createRoyaltyPool with a negative totalAmount
\* having been rejected).
C15_NonNegativeMoney ==
  \A r \in PoolIds :
    royalties[r] # NoDoc
      => /\ royalties[r].totalAmount >= 0
         /\ \A i \in 1..Len(royalties[r].distributions) :
              NonNegative(royalties[r].distributions[i].amount)

\* The ids of the contributions a pool's calculation is based on
EligibleIds(r) ==
  {c \in ContribIds : /\ contributions[c] # NoDoc
                       /\ contributions[c].verified
                       /\ contributions[c].teamId = royalties[r].teamId
                       /\ contributions[c].timestamp >= royalties[r].metadata.period.start
                       /\ contributions[c].timestamp <= royalties[r].metadata.period.end}

RECURSIVE SumFn(_, _)
SumFn(f, S) ==
  IF S = {} THEN 0
  ELSE LET c == CHOOSE x \in S : TRUE IN f[c] + SumFn(f, S \ {c})

\* Raw score of a contribution, and its score times roleWeight * typeWeight
\* (in hundredths) when its member has a record
RawScore == [c \in ContribIds |-> IF contributions[c] = NoDoc THEN 0 ELSE contributions[c].score]

WeightedScore ==
  [c \in ContribIds |->
     IF contributions[c] = NoDoc \/ members[contributions[c].memberId] = NoDoc THEN 0
     ELSE contributions[c].score * roleWeights(members[contributions[c].memberId].role)
                                 * typeWeights(contributions[c].type)]

\* rows holds exactly one row per member of ms, and the row of member m is
\* totalAmount * score_m / total, with percentage 100 * score_m / total
SplitBy(rows, ms, score, ids, totalAmount) ==
  LET total == SumFn(score, ids) IN
  /\ Len(rows) = Cardinality(ms)
  /\ \A m \in ms :
       \E i \in 1..Len(rows) :
         LET mine == SumFn(score, {c \in ids : contributions[c].memberId = m}) IN
         /\ rows[i].memberId = m
         /\ total > 0 =>
              /\ rows[i].amount.d > 0 /\ rows[i].percentage.d > 0
              /\ rows[i].amount.n * total = totalAmount * mine * rows[i].amount.d
              /\ rows[i].percentage.n * total = 100 * mine * rows[i].percentage.d

\* C19: after a calculateDistribution that completed, under the linear model
\* each contributing member's amount is totalAmount * s_i / sum(s) over the
\* raw scores, and under the weighted model the same over the scores times
\* roleWeight * typeWeight of the members that have a record; scores 300 and
\* 700 on a linear pool of 1000 give 300 and 700 (30 and 70 percent); a
\* team_lead code score 100 against a member documentation score 100 gives
\* weighted scores 180 and 90 and amounts in ratio 2:1.
C19_ProportionalSplit ==
  \A r \in PoolIds :
    (last = Done("calculateDistribution", "ok") /\ royalties[r] # NoDoc) =>
      LET pool == royalties[r]
          rows == pool.distributions
          ids == EligibleIds(r)
          contributors == {contributions[c].memberId : c \in ids}
          known == {m \in contributors : members[m] # NoDoc}
      IN /\ pool.distributionModel = "linear"
              => /\ SplitBy(rows, contributors, RawScore, ids, pool.totalAmount)
                 /\ (pool.totalAmount = 1000 /\ ids = {"c1", "c2"}
                       /\ RawScore["c1"] = 300 /\ RawScore["c2"] = 700)
                      => /\ rows[1].memberId = "m2" /\ rows[1].amount = Num(700)
                         /\ rows[1].percentage = Num(70)
                         /\ rows[2].memberId = "m1" /\ rows[2].amount = Num(300)
                         /\ rows[2].percentage = Num(30)
         /\ pool.distributionModel = "weighted"
              => /\ SplitBy(rows, known, WeightedScore, ids, pool.totalAmount)
                 /\ (pool.totalAmount = 1000 /\ ids = {"c1", "c2"}
                       /\ RawScore["c1"] = 100 /\ RawScore["c2"] = 100)
                      => /\ rows[1].memberId = "m1" /\ rows[1].score = Num(180)
                         /\ rows[2].memberId = "m2" /\ rows[2].score = Num(90)
                         /\ rows[1].amount = Rat(2000, 3)
                         /\ rows[2].amount = Rat(1000, 3)

C19_Witness ==
  /\ last = Done("calculateDistribution", "ok")
  /\ \E r \in PoolIds :
       /\ royalties[r] # NoDoc
       /\ royalties[r].distributionModel = "weighted"
       /\ royalties[r].totalAmount = 1000
       /\ EligibleIds(r) = {"c1", "c2"}
       /\ Len(royalties[r].distributions) = 2
       /\ royalties[r].distributions[1].score = Num(180)
       /\ royalties[r].distributions[2].score = Num(90)

Tallies(p) == <<proposals[p].votesFor, proposals[p].votesAgainst, proposals[p].votesAbstain>>

\* C13: a recorded ballot stays as recorded, weight included, and a step that
\* is not a vote (updateReputation, executeProposal verifying a contribution,
\* team changes, extension, finalize) leaves the ballots and the three
\* tallies of every proposal unchanged.
C13_WeightFrozen ==
  [][/\ \A b \in BagToSet(votes) : CopiesIn(b, votes') >= CopiesIn(b, votes)
     /\ last'.op \notin {"castVote", "vote"}
          => /\ votes' = votes
             /\ \A p \in ProposalIds :
                  Exists(p) => Exists(p)' /\ Tallies(p)' = Tallies(p)]_vars

C13_Witness ==
  /\ last.op \in {"updateReputation", "executeProposal"}
  /\ last.err = "ok"
  /\ \E b \in BagToSet(votes) :
       /\ b.voterId = "m1"
       /\ b.weight < calculateVoteWeight("m1", "t1")
       /\ proposals[b.proposalId].votesFor = b.weight

\* C14: the value current of checkQuorum never decreases for a proposal, and
\* every ballot recorded for it increases it.
C14_QuorumMonotone ==
  [][\A p \in ProposalIds :
       Exists(p) =>
         /\ Exists(p)'
         /\ checkQuorum(proposals[p], teams[proposals[p].teamId])'.current
              >= checkQuorum(proposals[p], teams[proposals[p].teamId]).current
         /\ proposals'[p].voters # proposals[p].voters
              => checkQuorum(proposals[p], teams[proposals[p].teamId])'.current
                   > checkQuorum(proposals[p], teams[proposals[p].teamId]).current]_vars

C14_Witness ==
  /\ last = Done("castVote", "ok")
  /\ \E p \in ProposalIds :
       /\ Exists(p) /\ BagCardinality(proposals[p].voters) = 3
       /\ checkQuorum(proposals[p], teams[proposals[p].teamId]).current >= 300

BothMet(p) ==
  /\ TotalVotes(p) >= TeamSize(p) * proposals[p].quorumRequired
  /\ proposals[p].votesFor + proposals[p].votesAgainst > 0
  /\ proposals[p].votesFor * 100 >=
       proposals[p].approvalThreshold * (proposals[p].votesFor + proposals[p].votesAgainst)

\* C16: after a successful vote of the facade the proposal is not active with
\* quorum and approval both met: when the ballot makes both hold the same
\* call leaves the proposal passed; a vote on a proposal that is no longer
\* active fails with InvalidState.
C16_AutoFinalize ==
  [][\A p \in ProposalIds, m \in MemberIds, v \in VoteOptions :
       (last'.op = "vote" /\ Exists(p) /\ Vote(p, m, v)) =>
         /\ last'.err = "ok"
              => /\ ~(proposals'[p].status = "active" /\ BothMet(p)')
                 /\ BothMet(p)' => /\ proposals'[p].status = "passed"
                                    /\ proposals'[p].executedAt = now
                 /\ Tallies(p)' # Tallies(p)
         /\ proposals[p].status # "active"
              => last'.err = "InvalidState" /\ UNCHANGED <<votes, proposals>>]_vars

C16_Witness ==
  /\ last = Done("vote", "ok")
  /\ \E p \in ProposalIds :
       /\ Exists(p) /\ proposals[p].status = "passed" /\ proposals[p].executedAt = now
       /\ BagCardinality(proposals[p].voters) >= 2

\* C17: requestVotingExtension succeeds exactly when the proposal exists and
\* the requester has a member record with role team_lead; then expiresAt
\* grows by the extension and nothing else of the proposal changes;
\* otherwise the call fails and the proposal is unchanged.
C17_VotingExtension ==
  [][\A p \in ProposalIds, m \in MemberIds :
       (last'.op = "requestVotingExtension"
          /\ RequestVotingExtension(p, m, DefaultExtensionDays))
         => IF Exists(p) /\ members[m] # NoDoc /\ members[m].role = "team_lead"
              THEN /\ last'.err = "ok"
                   /\ proposals' = [proposals EXCEPT
                                      ![p].expiresAt = @ + DefaultExtensionDays]
                   /\ votes' = votes
              ELSE /\ last'.err # "ok"
                   /\ proposals' = proposals]_vars

C17_Witness ==
  /\ last = Done("requestVotingExtension", "ok")
  /\ \E p \in ProposalIds :
       /\ Exists(p) /\ TotalVotes(p) > 0
       /\ proposals[p].expiresAt > now + 1

\* C20: finalizeProposal on an active proposal yields passed exactly when
\* quorum and approval both hold at the call, also after the deadline, and
\* stamps executedAt exactly then; otherwise, after the deadline, it yields
\* expired.
C20_DecisionTable ==
  [][\A p \in ProposalIds :
       (last'.op = "finalizeProposal" /\ Exists(p) /\ proposals[p].status = "active"
          /\ FinalizeProposal(p))
         => /\ last'.err = "ok"
            /\ proposals'[p].status = "passed" <=> BothMet(p)
            /\ proposals'[p].executedAt # Null <=> BothMet(p)
            /\ BothMet(p) => proposals'[p].executedAt = now
            /\ (~BothMet(p) /\ now > proposals[p].expiresAt)
                 => proposals'[p].status = "expired"
            /\ Tallies(p)' = Tallies(p)]_vars

C20_Witness ==
  /\ last = Done("finalizeProposal", "ok")
  /\ \E p \in ProposalIds :
       /\ Exists(p) /\ proposals[p].status = "passed"
       /\ proposals[p].executedAt = now /\ now > proposals[p].expiresAt

WrappingProposals(r) ==
  {p \in ProposalIds : /\ proposals[p] # NoDoc
                        /\ proposals[p].type = "royalty_distribution"
                        /\ proposals[p].metadata.poolId = r}

\* C12: executeProposal on a proposal that is not passed fails with
\* InvalidState and changes nothing; on a passed proposal it succeeds and
\* applies the effect of the type: contribution_verification marks the
\* contribution of metadata verified (when it exists), milestone_approval
\* marks the milestone of metadata completed at now (when the team has it),
\* every other type changes nothing; nothing else changes.
C12_ExecuteProposal ==
  [][\A p \in ProposalIds :
       (last'.op = "executeProposal" /\ Exists(p) /\ ExecuteProposal(p)) =>
         LET type == proposals[p].type
             cid == proposals[p].metadata.contributionId
             mid == proposals[p].metadata.milestoneId
             ms == teams[proposals[p].teamId].milestones
         IN /\ UNCHANGED <<proposals, royalties, members, votes>>
            /\ IF proposals[p].status # "passed"
                 THEN /\ last'.err = "InvalidState"
                      /\ UNCHANGED <<contributions, teams>>
                 ELSE /\ last'.err = "ok"
                      /\ \A c \in ContribIds :
                           IF type = "contribution_verification" /\ c = cid
                                /\ contributions[c] # NoDoc
                             THEN contributions'[c] = [contributions[c] EXCEPT !.verified = TRUE]
                             ELSE contributions'[c] = contributions[c]
                      /\ Len(teams'[proposals[p].teamId].milestones) = Len(ms)
                      /\ \A i \in 1..Len(ms) :
                           IF type = "milestone_approval" /\ ms[i].id = mid
                             THEN teams'[proposals[p].teamId].milestones[i] =
                                    [ms[i] EXCEPT !.status = "completed", !.completedAt = now]
                             ELSE teams'[proposals[p].teamId].milestones[i] = ms[i]
                      /\ teams'[proposals[p].teamId].members
                           = teams[proposals[p].teamId].members]_vars

C12_Witness ==
  /\ last = Done("executeProposal", "ok")
  /\ \E p \in ProposalIds :
       /\ Exists(p) /\ proposals[p].type = "milestone_approval"
       /\ proposals[p].metadata.milestoneId = "ms2"
       /\ teams["t1"].milestones[2].status = "completed"
       /\ teams["t1"].milestones[1].status = "pending"

\* C18: a pool that has a wrapping royalty_distribution proposal is
\* distributed only when that proposal is passed.
C18_ApprovalGatesSettlement ==
  \A r \in PoolIds :
    (royalties[r] # NoDoc /\ royalties[r].status = "distributed")
      => \A p \in WrappingProposals(r) : proposals[p].status = "passed"

\* The castVote calls that came back with their ballot
Succeeded(k) ==
  calls[k].op = "castVote" /\ calls[k].pc = "done" /\ calls[k].err = "ok"

\* Two castVote calls of different voters on one proposal, the only calls
\* made, that both read the proposal before either wrote it: neither copy
\* holds the other's voter
Raced(j, k) ==
  /\ j # k /\ Succeeded(j) /\ Succeeded(k)
  /\ \A c \in CallIds \ {j, k} : calls[c] = Idle
  /\ calls[j].proposalId = calls[k].proposalId
  /\ calls[j].memberId # calls[k].memberId
  /\ ~BagIn(calls[k].memberId, calls[j].proposal.voters)
  /\ ~BagIn(calls[j].memberId, calls[k].proposal.voters)

\* C21: when two castVote calls of different voters on one proposal both read
\* the proposal before either writes it, both succeed and both ballots are in
\* votes, but the stored proposal is the copy of the later writer: it holds
\* that call's voter and weight and not the other's, and its tally is below
\* the sum of the weights of the ballots recorded for the proposal.
C21_LostUpdate ==
  \A j, k \in CallIds :
    Raced(j, k) =>
      LET p == calls[j].proposalId IN
      /\ \A c \in {j, k} :
           BagIn([proposalId |-> p, voterId |-> calls[c].memberId,
                  vote |-> calls[c].vote, weight |-> calls[c].weight], votes)
      /\ proposals[p] \in {calls[j].proposal, calls[k].proposal}
      /\ ~(BagIn(calls[j].memberId, proposals[p].voters)
           /\ BagIn(calls[k].memberId, proposals[p].voters))
      /\ TotalVotes(p) < SumOver(votes, BallotsOf(p))

C21_Witness ==
  /\ Raced("x", "y")
  /\ proposals["p1"] = calls["y"].proposal
  /\ TotalVotes("p1") = calls["y"].weight
  /\ SumOver(votes, BallotsOf("p1")) = calls["x"].weight + calls["y"].weight

\* C22: the votes collection holds at most one ballot of a voter on a
\* proposal, in every interleaving of castVote calls.
C22_OneBallotPerVoter ==
  \A p \in ProposalIds, m \in MemberIds :
    BagCardinality([b \in {r \in BagToSet(votes) : r.proposalId = p /\ r.voterId = m}
                      |-> CopiesIn(b, votes)]) <= 1

\* C23: a step never takes the stored proposal from passed, rejected or
\* expired back to active.
C23_TerminalStable ==
  [][\A p \in ProposalIds :
       (Exists(p) /\ proposals[p].status \in Terminal)
         => proposals'[p].status \in Terminal]_vars


\* C24: executeProposal leaves every proposal document (status, executedAt,
\* voters, tallies) and every royalty pool (status, distributions) as they
\* were; on a passed proposal it succeeds, whether or not it has been executed
\* before, so the proposal is passed again afterwards and can be executed
\* again.
C24_ExecuteFrame ==
  [][\A p \in ProposalIds :
       (last'.op = "executeProposal" /\ Exists(p) /\ ExecuteProposal(p)) =>
         /\ proposals' = proposals
         /\ royalties' = royalties
         /\ proposals[p].status = "passed" =>
              /\ last'.err = "ok"
              /\ ExecuteFailure(p)' = "ok"]_vars

C24_Witness ==
  /\ last = Done("executeProposal", "ok")
  /\ \E p \in ProposalIds, r \in PoolIds :
       /\ Exists(p) /\ proposals[p].type = "royalty_distribution"
       /\ proposals[p].metadata.poolId = r
       /\ proposals[p].status = "passed"
       /\ royalties[r] # NoDoc /\ royalties[r].status = "calculated"

\* What calculateDistribution does with the pool r when its model is linear:
\* the error it ends with and the pool document it leaves
LinearOutcome(r) ==
  LET linear == [royalties[r] EXCEPT !.distributionModel = "linear"] IN
  [err |-> CalculationFailure(linear),
   pool |-> IF CalculationFailure(linear) = "ok"
              THEN [CalculatedPool(linear) EXCEPT
                      !.distributionModel = royalties[r].distributionModel]
              ELSE royalties[r]]

MilestonePoolWithContributions(r) ==
  /\ royalties[r] # NoDoc
  /\ royalties[r].distributionModel = "milestone"
  /\ EligibleContributions(royalties[r]) # <<>>

\* The team of the pool r has a milestone completed within the pool's period
HasCompletedMilestone(r) ==
  LET team == teams[royalties[r].teamId]
      period == royalties[r].metadata.period
  IN /\ team # NoDoc
     /\ \E i \in 1..Len(team.milestones) :
          /\ team.milestones[i].status = "completed"
          /\ team.milestones[i].completedAt >= period.start
          /\ team.milestones[i].completedAt <= period.end

\* C25, as stated: on a milestone pool with eligible contributions,
\* calculateDistribution ends as it would for the linear model (same error,
\* same rows), whatever the milestones of the team are.
C25_MilestoneIsLinear ==
  [][\A r \in PoolIds :
       (last'.op = "calculateDistribution" /\ MilestonePoolWithContributions(r)
        /\ CalculateDistribution(r)) =>
         /\ last'.err = LinearOutcome(r).err
         /\ royalties'[r] = LinearOutcome(r).pool]_vars

\* C25, amended: on a milestone pool with eligible contributions,
\* calculateDistribution ends as it would for the linear model when the team
\* has a milestone completed within the period; when it has none the call
\* fails with NoMilestones and leaves the pool as it was.
C25_MilestoneIsLinearWhenCompleted ==
  [][\A r \in PoolIds :
       (last'.op = "calculateDistribution" /\ MilestonePoolWithContributions(r)
        /\ CalculateDistribution(r)) =>
         IF HasCompletedMilestone(r)
           THEN /\ last'.err = LinearOutcome(r).err
                /\ royalties'[r] = LinearOutcome(r).pool
           ELSE /\ last'.err = "NoMilestones"
                /\ royalties' = royalties]_vars

C25_Witness ==
  /\ last = Done("calculateDistribution", "ok")
  /\ \E r \in PoolIds :
       /\ royalties[r] # NoDoc
       /\ royalties[r].distributionModel = "milestone"
       /\ royalties[r].status = "calculated"
       /\ Len(royalties[r].distributions) = 2
       /\ HasCompletedMilestone(r)

\* The documents of the contributions ids, in list order
DocsOf(ids) ==
  LET order == SelectSeq(ContribOrder, LAMBDA c : c \in ids)
  IN [i \in 1..Len(order) |-> contributions[order[i]]]

\* C26: calculateDistribution computes its rows from the contributions of the
\* pool's team that are verified and dated within [periodStart, periodEnd] and
\* from nothing else in the contributions collection: the rows are those of
\* the model applied to these contributions alone, and every row belongs to a
\* member who owns one of them.  When there is no such contribution the call
\* fails with NoContributions and the pool is still pending with no rows.
C26_EligibleContributionsOnly ==
  [][\A r \in PoolIds :
       (last'.op = "calculateDistribution" /\ royalties[r] # NoDoc
        /\ CalculateDistribution(r)) =>
         LET pool == royalties[r]
             ids == EligibleIds(r)
             rows == royalties'[r].distributions
         IN IF ids = {}
              THEN /\ last'.err = "NoContributions"
                   /\ royalties' = royalties
                   /\ pool.status = "pending" /\ pool.distributions = <<>>
              ELSE last'.err = "ok" =>
                     /\ rows = Distributions(pool, DocsOf(ids))
                     /\ \A i \in 1..Len(rows) :
                          \E c \in ids : contributions[c].memberId = rows[i].memberId]_vars

\* A pool calculated from the contribution of m3 alone while m1's verified
\* contribution is outside the period and m2's is unverified or of another team
C26_Witness ==
  /\ last = Done("calculateDistribution", "ok")
  /\ \E r \in PoolIds :
       /\ royalties[r] # NoDoc /\ royalties[r].status = "calculated"
       /\ EligibleIds(r) = {"c3"}
       /\ contributions["c1"].verified /\ contributions["c1"].timestamp = 2
       /\ Len(royalties[r].distributions) = 1
       /\ royalties[r].distributions[1].memberId = "m3"
       /\ royalties[r].distributions[1].amount = Num(1000)

C28_WeightBounds ==
  /\ \A m \in MemberIds :
       /\ calculateVoteWeight(m, "t1") >= 100
       /\ calculateVoteWeight(m, "t1") <= 200
       /\ members[m] = NoDoc => calculateVoteWeight(m, "t1") = 100
       /\ members[m] # NoDoc =>
            members[m].reputation >= 0 /\ members[m].reputation <= MaxReputation
  /\ \A b \in BagToSet(votes) :
       /\ b.weight >= 100 /\ b.weight <= 200
       /\ members[b.voterId] = NoDoc => b.weight = 100

\* The lead with reputation 1000 and more than fifteen verified contributions
\* has voted with weight 2.00, the voter without a record with weight 1
C28_Witness ==
  /\ members["m1"].role = "team_lead" /\ members["m1"].reputation = MaxReputation
  /\ \E b \in BagToSet(votes) : b.voterId = "m1" /\ b.weight = 200
  /\ \E b \in BagToSet(votes) : b.voterId = "m3" /\ b.weight = 100

\* C29: every member id in the voters of an active proposal is in the
\* members list of the proposal's team, also after removeMember.
C29_VotersAreMembers ==
  \A p \in ProposalIds :
    (Exists(p) /\ proposals[p].status = "active") =>
      \A m \in BagToSet(proposals[p].voters) :
        Includes(teams[proposals[p].teamId].members, m)

\* C29, amended: a member id enters the voters of a proposal only while it
\* is in the members list of the proposal's team, and a voter of an active
\* proposal leaves that list only by a successful removeMember, which leaves
\* voters, tallies and ballots as they are.
C29_VotersWereMembers ==
  [][\A p \in ProposalIds, m \in MemberIds :
       /\ (~Exists(p) /\ Exists(p)') => proposals'[p].voters = EmptyBag
       /\ (Exists(p) /\ proposals[p].status = "active") =>
            LET team == teams[proposals[p].teamId] IN
            /\ CopiesIn(m, proposals'[p].voters) > CopiesIn(m, proposals[p].voters)
                 => Includes(team.members, m) /\ teams' = teams
            /\ (BagIn(m, proposals[p].voters) /\ Includes(team.members, m)
                  /\ ~Includes(teams'[proposals[p].teamId].members, m))
                 => /\ last' = Done("removeMember", "ok")
                    /\ UNCHANGED <<proposals, votes>>]_vars

\* A voter of an active proposal has just been removed from the team
C29_Witness ==
  /\ last = Done("removeMember", "ok")
  /\ \E p \in ProposalIds :
       /\ Exists(p) /\ proposals[p].status = "active"
       /\ BagIn("m3", proposals[p].voters)
       /\ ~Includes(teams[proposals[p].teamId].members, "m3")
       /\ TotalVotes(p) > 0

\* C30: once now has exceeded the proposal's expiresAt, no step leads to a
\* state in which a castVote on the proposal would succeed, whoever votes and
\* whatever the step is (requestVotingExtension included), and a castVote
\* made while the deadline has passed records nothing.
C30_ClosedStaysClosed ==
  [][\A p \in ProposalIds :
       (Exists(p) /\ now > proposals[p].expiresAt) =>
         /\ \A m \in MemberIds, v \in VoteOptions : CastVoteFailure(p, m, v)' # "ok"
         /\ last'.op \in {"castVote", "vote"} => votes' = votes]_vars

\* C30, amended: once now has exceeded the proposal's expiresAt, a castVote
\* fails and records nothing, and every step other than a successful
\* requestVotingExtension leaves the deadline passed, so that no castVote
\* succeeds until an extension has moved expiresAt.
C30_ClosedUntilExtended ==
  [][\A p \in ProposalIds :
       (Exists(p) /\ now > proposals[p].expiresAt) =>
         /\ last'.op \in {"castVote", "vote"}
              => last'.err # "ok" /\ UNCHANGED <<votes, proposals>>
         /\ last' # Done("requestVotingExtension", "ok")
              => now' > proposals'[p].expiresAt]_vars

\* An extension granted after the deadline: voting on the active proposal is
\* open again
C30_Witness ==
  /\ last = Done("requestVotingExtension", "ok")
  /\ \E p \in ProposalIds :
       /\ Open(p)
       /\ now > proposals[p].expiresAt - DefaultExtensionDays

====
